---- MODULE Spec2Model ----
(***************************************************************************)
(* A model of the apply-versions orchestrator: PackageProcessor.process    *)
(* (src/src/processors/package-processor.ts) driving the package updaters  *)
(* (src/src/updaters/*.ts) and GitOperations                               *)
(* (src/src/git/git-operations.ts).                                        *)
(*                                                                         *)
(* File contents are abstracted to "this file carries a modification made  *)
(* while processing package i"; the repository is a working tree (modified,*)
(* unstaged files), an index (staged files), the list of commits created   *)
(* in the run and the set of tags.                                         *)
(***************************************************************************)
EXTENDS Naturals, Sequences, FiniteSets, TLC

VARIABLES
    packages,      \* process(packages): the input descriptors, in input order
    dryRun,        \* PackageProcessor.dryRun (also ConsoleProgressObserver.dryRun)
    pc,            \* position inside process(): analyze, confirm, execute, commit, tag, done
    idx,           \* loop index of the running for-loop (analysis, then execution)
    changes,       \* analyzeChanges: the plan, one PackageChange per analysed descriptor
    results,       \* process: results[] of the execution loop
    updateResult,  \* processPackage: updateResult of the descriptor in flight
    gitResult,     \* processPackage: gitResult of the descriptor in flight
    summary,       \* the Summary returned by process()
    written,       \* every file an updater has written during the run
    worktree,      \* files modified on disk and not staged
    index,         \* files staged in the git index
    commits,       \* commits created during the run, each the set of files it holds
    repoTags,      \* tags of the repository
    log,           \* observer events and updater/git invocations, in order
    fs,            \* the manifest files on disk handed to one updater: path -> content
    call           \* the updater call made on fs: its arguments, result and writes

\* The variables of a run of process(), and those of one updater exercised alone
runVars == <<packages, dryRun, pc, idx, changes, results, updateResult,
             gitResult, summary, written, worktree, index, commits, repoTags, log>>
unitVars == <<fs, call>>

vars == <<runVars, unitVars>>

\* ---------------------------------------------------------------- bounds

MaxPkgs == 2

\* ---------------------------------------------------------------- values

Undefined == "undefined"

\* The [[package]] entries of versions.toml as ConfigParser.parse returns them
\* (types/package.ts PackageConfig, with the optional create_tag ("true", "false"
\* or undefined) and relativePath fields the updaters read); path is relative to
\* the directory of versions.toml, the root of the repository.
ManifestPackages ==
    { [type |-> "npm",   path |-> "web",  relativePath |-> Undefined, version |-> "1.1.0", create_tag |-> Undefined],
      [type |-> "npm",   path |-> "cli",  relativePath |-> Undefined, version |-> "1.1.0", create_tag |-> "false"],
      [type |-> "go",    path |-> ".",    relativePath |-> Undefined, version |-> "1.1.0", create_tag |-> Undefined],
      [type |-> "go",    path |-> "svc",  relativePath |-> Undefined, version |-> "2.0.0", create_tag |-> Undefined],
      [type |-> "cargo", path |-> "core", relativePath |-> Undefined, version |-> "2.0.0", create_tag |-> Undefined] }

\* handleApply: configDir, the directory of versions.toml
ConfigDir == "/repo"

\* node:path resolve(dir, path) for a relative path without . or .. segments
resolve(dir, path) == IF path = "" THEN dir ELSE dir \o "/" \o path

\* handleApply: the path of each entry is made absolute, nothing else is set
AbsolutePackage(pkg) ==
    [pkg EXCEPT !.path = IF pkg.path = "." THEN ConfigDir ELSE resolve(ConfigDir, pkg.path)]

\* The descriptors handleApply hands to process()
PackageConfigs == { AbsolutePackage(pkg) : pkg \in ManifestPackages }

\* Tag sets the repository may hold before the run.
InitialTagSets == { {}, {"v1.1.0"} }

RECURSIVE SeqsUpTo(_, _)
SeqsUpTo(S, n) ==
    IF n = 0 THEN { <<>> }
    ELSE LET shorter == SeqsUpTo(S, n - 1)
         IN  shorter \cup { Append(s, x) : s \in { t \in shorter : Len(t) = n - 1 }, x \in S }

\* A manifest names each package directory once: no two descriptors share a path,
\* so the files of different descriptors are different files.
DistinctPaths(ps) ==
    \A a \in 1..Len(ps), b \in 1..Len(ps) : a # b => ps[a].path # ps[b].path

\* JavaScript truthiness of an optional string (r.error in createSummary).
Truthy(x) == x # Undefined /\ x # ""

\* "no updateResult" / "no gitResult" (the optional fields of ProcessResult)
NoUpdateResult == [success |-> FALSE, error |-> Undefined, additionalFiles |-> {},
                   versions |-> FALSE, none |-> TRUE]
NoGitResult == [success |-> FALSE, error |-> Undefined, none |-> TRUE]

NoSummary == [total |-> 0, updated |-> 0, skipped |-> 0, failed |-> 0,
              commits |-> 0, tags |-> 0, none |-> TRUE]

File(i, kind) == [pkg |-> i, file |-> kind]

\* No updater is exercised alone during a run of process()
NoFiles == <<>>
NoCall == [op |-> "none", n |-> 0]

Entry(op, i, info) == [op |-> op, i |-> i, info |-> info]

\* The log entries of the commands cmds issued, in order, through channel op
\* ("git": a simple-git call, "spawn": a child process) for package i
Calls(op, i, cmds) == [ n \in 1..Len(cmds) |-> Entry(op, i, cmds[n]) ]

\* The elements of a set of at most one element, as a sequence
SetToSeq(S) == IF S = {} THEN <<>> ELSE << CHOOSE x \in S : TRUE >>

\* ---------------------------------------------------------------- updaters

\* NpmPackageUpdater / GoPackageUpdater / RustPackageUpdater .shouldCreateTag
shouldCreateTag(pkg) ==
    CASE pkg.type = "npm"   -> IF pkg.create_tag # Undefined THEN pkg.create_tag = "true" ELSE TRUE
      [] pkg.type = "go"    -> TRUE
      [] pkg.type = "cargo" -> IF pkg.create_tag # Undefined THEN pkg.create_tag = "true" ELSE TRUE

\* NpmPackageUpdater / GoPackageUpdater / RustPackageUpdater .getTagName
getTagName(pkg) ==
    IF pkg.type = "go"
    THEN LET pkgPath == IF Truthy(pkg.relativePath) THEN pkg.relativePath ELSE pkg.path
         IN  IF pkgPath = "." \/ pkgPath = ""
             THEN "v" \o pkg.version
             ELSE pkgPath \o "/v" \o pkg.version
    ELSE "v" \o pkg.version


\* What one call of updater.updateVersion(path, version, dryRun) can do: the
\* UpdateResult it returns (a success carries oldVersion and newVersion), the
\* files it has written and the commands it has spawned when it returns.
UpdateOutcome(ok, err, additional, wr, cmds) ==
    [success |-> ok, error |-> err, additionalFiles |-> additional, versions |-> ok,
     written |-> wr, spawned |-> cmds]

\* NpmPackageUpdater.updateVersion
NpmUpdateOutcomes(dry) ==
    { UpdateOutcome(FALSE, "ENOENT: no such file or directory", {}, {}, {}) }
    \cup
    ( IF dry
      THEN { UpdateOutcome(TRUE, Undefined, {"lock"}, {}, {}) }
      ELSE { UpdateOutcome(TRUE, Undefined, {"lock"}, {"primary"}, {"npm install"}),
             UpdateOutcome(TRUE, Undefined, {"lock"}, {"primary", "lock"}, {"npm install"}),
             \* package.json is written before npm install runs and rejects
             UpdateOutcome(FALSE, "npm install failed with exit code 1", {}, {"primary"},
                           {"npm install"}) } )

\* GoPackageUpdater.updateVersion: go.mod is read, never written
GoUpdateOutcomes(dry) ==
    { UpdateOutcome(FALSE, "ENOENT: no such file or directory", {}, {}, {}),
      UpdateOutcome(TRUE, Undefined, {}, {}, {}) }

\* The sets of files RustPackageUpdater.updateVersion collects in updatedFiles:
\* the package's own Cargo.toml, the workspace root, workspace members.
CargoUpdatedFiles == { {"primary"}, {"primary", "root", "member"} }

\* RustPackageUpdater.updateVersion
CargoUpdateOutcomes(dry) ==
    { UpdateOutcome(FALSE, "Failed to update version", {}, {}, {}) }
    \cup
    { UpdateOutcome(TRUE, Undefined, W \ {"primary"}, IF dry THEN {} ELSE W, {}) :
        W \in CargoUpdatedFiles }
    \cup
    \* updateWorkspaceMembers has written a member before a later step throws
    ( IF dry THEN {}
      ELSE { UpdateOutcome(FALSE, "Failed to update version", {}, {"member"}, {}) } )

\* PackageUpdaterFactory.getUpdater(type).updateVersion
UpdateOutcomes(pkg, dry) ==
    CASE pkg.type = "npm"   -> NpmUpdateOutcomes(dry)
      [] pkg.type = "go"    -> GoUpdateOutcomes(dry)
      [] pkg.type = "cargo" -> CargoUpdateOutcomes(dry)

\* ---------------------------------------------------------------- summaries

\* Mutant: failed counts every result that was not updated
createSummary_FailedIsNotUpdated(rs) ==
    LET Rs == 1..Len(rs)
        Committed == { k \in Rs : rs[k].updated /\ rs[k].gitResult.success }
    IN  [ total   |-> Len(rs),
          updated |-> Cardinality({ k \in Rs : rs[k].updated }),
          skipped |-> Cardinality({ k \in Rs : rs[k].skipped }),
          failed  |-> Cardinality({ k \in Rs : ~rs[k].updated }),
          commits |-> Cardinality(Committed),
          tags    |-> Cardinality({ k \in Committed : shouldCreateTag(packages[rs[k].package]) }),
          none    |-> FALSE ]

\* PackageProcessor.createSummary
createSummary(rs) ==
    LET Rs == 1..Len(rs)
        Committed == { k \in Rs : rs[k].updated /\ rs[k].gitResult.success }
    IN  [ total   |-> Len(rs),
          updated |-> Cardinality({ k \in Rs : rs[k].updated }),
          skipped |-> Cardinality({ k \in Rs : rs[k].skipped }),
          failed  |-> Cardinality({ k \in Rs : Truthy(rs[k].error) }),
          commits |-> Cardinality(Committed),
          tags    |-> Cardinality({ k \in Committed : shouldCreateTag(packages[rs[k].package]) }),
          none    |-> FALSE ]

\* PackageProcessor.createChangeSummary
createChangeSummary(cs) ==
    LET Cs == 1..Len(cs)
        toUpdate == { k \in Cs : cs[k].needsUpdate }
        toSkip   == { k \in Cs : ~cs[k].needsUpdate }
    IN  [ toUpdate |-> Cardinality(toUpdate),
          toSkip   |-> Cardinality(toSkip),
          commits  |-> Cardinality(toUpdate),
          tags     |-> { cs[k].tagName : k \in { j \in Cs : cs[j].willCreateTag /\ Truthy(cs[j].tagName) } } ]

\* ---------------------------------------------------------------- initial state

Init ==
    /\ packages \in { ps \in SeqsUpTo(PackageConfigs, MaxPkgs) : DistinctPaths(ps) }
    /\ dryRun \in BOOLEAN
    /\ repoTags \in InitialTagSets
    /\ pc = "analyze"
    /\ idx = 1
    /\ changes = <<>>
    /\ results = <<>>
    /\ updateResult = NoUpdateResult
    /\ gitResult = NoGitResult
    /\ summary = NoSummary
    /\ written = {}
    /\ worktree = {}
    /\ index = {}
    /\ commits = <<>>
    /\ log = << Entry("onAnalysisStart", 0, Undefined) >>
    /\ fs = NoFiles
    /\ call = NoCall


\* ---------------------------------------------------------------- ANALYZE

\* What analysing one descriptor can find (analyzeChanges, one loop iteration):
\* the validation chain rejects it, its package file is missing, reading the
\* current version throws, or the current version is read and equals / differs
\* from the target.
AnalysisFailures == { "Validation failed", "Package file not found", "Failed to analyze" }
AnalysisOutcomes == AnalysisFailures \cup { "at target", "differs" }

\* analyzeChanges: the PackageChange pushed for descriptor i
PackageChange(i, needsUpdate) ==
    LET pkg == packages[i]
        willCreateTag == needsUpdate /\ shouldCreateTag(pkg)
    IN  [ config        |-> i,
          needsUpdate   |-> needsUpdate,
          willCreateTag |-> willCreateTag,
          tagName       |-> IF willCreateTag THEN getTagName(pkg) ELSE Undefined ]

\* Mutant: a failing descriptor aborts the analysis and empties the plan
PlanAfter_FailureDropsPlan(cs, i, outcome) ==
    IF outcome \in AnalysisFailures
    THEN <<>>
    ELSE Append(cs, PackageChange(i, outcome = "differs"))

\* analyzeChanges: the plan after one more descriptor has been analysed
PlanAfter(cs, i, outcome) ==
    IF outcome \in AnalysisFailures
    THEN cs
    ELSE Append(cs, PackageChange(i, outcome = "differs"))

\* analyzeChanges: one iteration of the for-loop over packages
AnalyzePackage ==
    /\ pc = "analyze"
    /\ idx <= Len(packages)
    /\ \E outcome \in AnalysisOutcomes :
         /\ changes' = PlanAfter(changes, idx, outcome)
         /\ log' = IF outcome \in AnalysisFailures
                   THEN Append(log, Entry("onError", idx, "analysis"))
                   ELSE log
    /\ idx' = idx + 1
    /\ UNCHANGED <<unitVars, packages, dryRun, pc, results, updateResult, gitResult,
                   summary, written, worktree, index, commits, repoTags>>

\* process: changes.length === 0 after analysis
NoValidPackages ==
    /\ pc = "analyze"
    /\ idx > Len(packages)
    /\ changes = <<>>
    /\ log' = Append(log, Entry("onError", 0, "No valid packages found to process"))
    /\ summary' = createSummary(<<>>)
    /\ pc' = "done"
    /\ UNCHANGED <<unitVars, packages, dryRun, idx, changes, results, updateResult,
                   gitResult, written, worktree, index, commits, repoTags>>

\* process: observer.onAnalysisComplete(changes)
AnalysisComplete ==
    /\ pc = "analyze"
    /\ idx > Len(packages)
    /\ changes # <<>>
    /\ log' = Append(log, Entry("onAnalysisComplete", 0, Undefined))
    /\ pc' = "confirm"
    /\ UNCHANGED <<unitVars, packages, dryRun, idx, changes, results, updateResult,
                   gitResult, summary, written, worktree, index, commits, repoTags>>

\* ---------------------------------------------------------------- CONFIRM

\* ConsoleProgressObserver.onConfirmationPrompt: autoConfirm is the observer's
\* --yes flag, read here and nowhere else, answer is the user's reply
onConfirmationPrompt(autoConfirm, answer) ==
    IF dryRun \/ autoConfirm THEN TRUE ELSE answer

\* process: the prompt resolves true
ConfirmationAccepted ==
    /\ pc = "confirm"
    /\ \E autoConfirm \in BOOLEAN, answer \in BOOLEAN : onConfirmationPrompt(autoConfirm, answer)
    /\ log' = Append(log, Entry("onConfirmationPrompt", 0, "yes"))
    /\ pc' = "execute"
    /\ idx' = 1
    /\ UNCHANGED <<unitVars, packages, dryRun, changes, results, updateResult,
                   gitResult, summary, written, worktree, index, commits, repoTags>>

\* Mutant: the decline is noticed but the early return is missing
ConfirmationDeclined_FallsThrough ==
    /\ pc = "confirm"
    /\ \E autoConfirm \in BOOLEAN, answer \in BOOLEAN : ~onConfirmationPrompt(autoConfirm, answer)
    /\ log' = Append(log, Entry("onConfirmationPrompt", 0, "no"))
    /\ pc' = "execute"
    /\ idx' = 1
    /\ UNCHANGED <<unitVars, packages, dryRun, changes, results, updateResult,
                   gitResult, summary, written, worktree, index, commits, repoTags>>

\* process: the prompt resolves false
ConfirmationDeclined ==
    /\ pc = "confirm"
    /\ \E autoConfirm \in BOOLEAN, answer \in BOOLEAN : ~onConfirmationPrompt(autoConfirm, answer)
    /\ log' = Append(log, Entry("onConfirmationPrompt", 0, "no"))
    /\ summary' = createSummary(<<>>)
    /\ pc' = "done"
    /\ UNCHANGED <<unitVars, packages, dryRun, idx, changes, results, updateResult,
                   gitResult, written, worktree, index, commits, repoTags>>


\* ---------------------------------------------------------------- EXECUTE

\* The UpdateResult value an updateVersion outcome hands back to the processor
Returned(o) ==
    [success |-> o.success, error |-> o.error, additionalFiles |-> o.additionalFiles,
     versions |-> o.versions, none |-> FALSE]

GitResult(ok, err) == [success |-> ok, error |-> err, none |-> FALSE]

\* Mutant: a skipped change is recorded as updated as well
SkippedResult_AlsoUpdated(i) ==
    [package |-> i, updated |-> TRUE, skipped |-> TRUE, error |-> Undefined,
     updateResult |-> NoUpdateResult, gitResult |-> NoGitResult]

\* process: the result pushed for a change with needsUpdate = false
SkippedResult(i) ==
    [package |-> i, updated |-> FALSE, skipped |-> TRUE, error |-> Undefined,
     updateResult |-> NoUpdateResult, gitResult |-> NoGitResult]

\* processPackage: the result returned when updateResult.success is false
PatchFailedResult(i, u) ==
    [package |-> i, updated |-> FALSE, skipped |-> FALSE, error |-> u.error,
     updateResult |-> u, gitResult |-> NoGitResult]

\* Mutant: a commit failure is recorded like a patch failure
CommitFailedResult_AsPatchFailure(i, u, g) ==
    [package |-> i, updated |-> FALSE, skipped |-> FALSE, error |-> g.error,
     updateResult |-> u, gitResult |-> NoGitResult]

\* processPackage: the result returned when gitResult.success is false
CommitFailedResult(i, u, g) ==
    [package |-> i, updated |-> TRUE, skipped |-> FALSE, error |-> Undefined,
     updateResult |-> u, gitResult |-> g]

\* processPackage: the result returned after the commit (and the optional tag)
UpdatedResult(i, u, g) ==
    [package |-> i, updated |-> TRUE, skipped |-> FALSE, error |-> Undefined,
     updateResult |-> u, gitResult |-> g]

\* processPackage: the result returned by the catch handler
ThrownResult(i, msg) ==
    [package |-> i, updated |-> FALSE, skipped |-> FALSE, error |-> msg,
     updateResult |-> NoUpdateResult, gitResult |-> NoGitResult]

\* process: the execution loop stands at a planned change
AtChange == pc = "execute" /\ idx <= Len(changes)

\* process: the loop moves on to the next change with result r pushed
PushResult(r) ==
    /\ results' = Append(results, r)
    /\ idx' = idx + 1
    /\ pc' = "execute"
    /\ updateResult' = NoUpdateResult
    /\ gitResult' = NoGitResult

\* process: a change that needs no update is skipped
SkipPackage ==
    /\ AtChange
    /\ ~changes[idx].needsUpdate
    /\ log' = Append(log, Entry("onPackageSkipped", changes[idx].config, Undefined))
    /\ PushResult(SkippedResult(changes[idx].config))
    /\ UNCHANGED <<unitVars, packages, dryRun, changes, summary, written, worktree, index,
                   commits, repoTags>>

\* processPackage, up to the await of stageAndCommit: the updater patches the files
UpdatePackage ==
    /\ AtChange
    /\ changes[idx].needsUpdate
    /\ LET i == changes[idx].config IN
       \E o \in UpdateOutcomes(packages[i], dryRun) :
         /\ written' = written \cup { File(i, k) : k \in o.written }
         /\ worktree' = worktree \cup { File(i, k) : k \in o.written }
         /\ log' = log \o << Entry("onPackageStart", i, Undefined) >>
                       \o Calls("spawn", i, SetToSeq(o.spawned))
                       \o << Entry("updateVersion", i, IF o.success THEN "success" ELSE "failure"),
                             Entry("onPackageComplete", i, Undefined) >>
         /\ IF o.success
            THEN /\ updateResult' = Returned(o)
                 /\ pc' = "commit"
                 /\ UNCHANGED <<results, idx, gitResult>>
            ELSE PushResult(PatchFailedResult(i, Returned(o)))
    /\ UNCHANGED <<unitVars, packages, dryRun, changes, summary, index, commits, repoTags>>

\* processPackage: something thrown inside the try block reaches the catch
\* handler before the updater has written anything
ProcessPackageThrows ==
    /\ AtChange
    /\ changes[idx].needsUpdate
    /\ LET i == changes[idx].config IN
         /\ log' = log \o << Entry("onPackageStart", i, Undefined),
                             Entry("onError", i, "Failed to process") >>
         /\ PushResult(ThrownResult(i, "Unknown error"))
    /\ UNCHANGED <<unitVars, packages, dryRun, changes, summary, written, worktree, index,
                   commits, repoTags>>


\* processPackage: filePath plus updateResult.additionalFiles, the files handed
\* to gitOps.stageAndCommit for package i
FilesToStage(i, u) ==
    { File(i, "primary") } \cup { File(i, k) : k \in u.additionalFiles }

\* Mutant: stageAndCommit ignores its dryRun argument
StageAndCommitOutcomes_IgnoresDryRun(dry) ==
    { "add failed", "commit failed", "committed" }

\* GitOperations.stageAndCommit: how one call can end
StageAndCommitOutcomes(dry) ==
    IF dry THEN { "dry-run" }
    ELSE { "add failed", "commit failed", "committed" }

\* GitOperations.stageAndCommit: the simple-git calls one call issues
StageAndCommitCalls(outcome) ==
    CASE outcome = "dry-run"    -> <<>>
      [] outcome = "add failed" -> << "add" >>
      [] OTHER                  -> << "add", "commit" >>

\* GitOperations.stageAndCommit: the index after the git.add calls (a path with
\* no modification, or a missing additional file, stages nothing)
IndexAfterAdd(ix, wt, files, outcome) ==
    IF outcome \in { "commit failed", "committed" } THEN ix \cup (files \cap wt) ELSE ix

\* GitOperations.stageAndCommit: the working tree after the git.add calls
WorktreeAfterAdd(wt, files, outcome) ==
    IF outcome \in { "commit failed", "committed" } THEN wt \ files ELSE wt

\* GitOperations.stageAndCommit: the GitOperationResult returned
StageAndCommitResult(outcome) ==
    IF outcome \in { "dry-run", "committed" }
    THEN GitResult(TRUE, Undefined)
    ELSE GitResult(FALSE, outcome)

\* Mutant: the tag is requested after every successful commit
TagRequested_Always(change) == TRUE

\* processPackage: whether createTag is requested after a successful commit
TagRequested(change) == change.willCreateTag

\* processPackage, from stageAndCommit to the await of createTag
StageAndCommit ==
    /\ pc = "commit"
    /\ LET i == changes[idx].config
           files == FilesToStage(i, updateResult)
       IN
       \E outcome \in StageAndCommitOutcomes(dryRun) :
         LET g == StageAndCommitResult(outcome)
             staged == IndexAfterAdd(index, worktree, files, outcome)
         IN
         /\ worktree' = WorktreeAfterAdd(worktree, files, outcome)
         /\ IF outcome = "committed"
            THEN /\ commits' = Append(commits, staged)
                 /\ index' = {}
            ELSE /\ commits' = commits
                 /\ index' = staged
         /\ IF ~g.success
            THEN /\ log' = log \o Calls("git", i, StageAndCommitCalls(outcome))
                               \o << Entry("stageAndCommit", i, "failure"),
                                     Entry("onError", i, "Failed to commit changes") >>
                 /\ PushResult(CommitFailedResult(i, updateResult, g))
            ELSE /\ log' = log \o Calls("git", i, StageAndCommitCalls(outcome))
                               \o << Entry("stageAndCommit", i, "success") >>
                 /\ IF TagRequested(changes[idx])
                    THEN /\ gitResult' = g
                         /\ pc' = "tag"
                         /\ UNCHANGED <<results, idx, updateResult>>
                    ELSE PushResult(UpdatedResult(i, updateResult, g))
    /\ UNCHANGED <<unitVars, packages, dryRun, changes, summary, written, repoTags>>

\* GitOperations.createTag: how one call can end
CreateTagOutcomes(tagName, dry, tags) ==
    IF dry THEN { "dry-run" }
    ELSE IF tagName \in tags THEN { "already exists" }
    ELSE { "created", "addTag failed" }

\* GitOperations.createTag: the simple-git calls one call issues
CreateTagCalls(outcome) ==
    CASE outcome = "dry-run"        -> <<>>
      [] outcome = "already exists" -> << "fetch", "tags" >>
      [] OTHER                      -> << "fetch", "tags", "addTag" >>

\* processPackage: createTag for the change in flight, then the result is returned
CreateTag ==
    /\ pc = "tag"
    /\ LET i == changes[idx].config
           tagName == getTagName(packages[i])
       IN
       \E outcome \in CreateTagOutcomes(tagName, dryRun, repoTags) :
         /\ repoTags' = IF outcome = "created" THEN repoTags \cup { tagName } ELSE repoTags
         /\ log' = log \o << Entry("getTagName", i, tagName) >>
                       \o Calls("git", i, CreateTagCalls(outcome)) \o
                   ( IF outcome \in { "dry-run", "created" }
                     THEN << Entry("createTag", i, "success") >>
                     ELSE << Entry("createTag", i, "failure"),
                             Entry("onError", i, "Failed to create tag") >> )
         /\ PushResult(UpdatedResult(i, updateResult, gitResult))
    /\ UNCHANGED <<unitVars, packages, dryRun, changes, summary, written, worktree, index, commits>>

\* ---------------------------------------------------------------- SUMMARIZE

\* handleApply: the exit code for the Summary that process() returned
ExitCode(s) ==
    IF s.failed > 0 THEN 1
    ELSE IF s.updated = 0 /\ s.skipped = 0 THEN 2
    ELSE 0

\* Mutant: the batch stops at the first result that carries an error
Complete_StopsOnFailure ==
    /\ pc = "execute"
    /\ \/ idx > Len(changes)
       \/ results # <<>> /\ Truthy(results[Len(results)].error)
    /\ summary' = createSummary(results)
    /\ log' = Append(log, Entry("onComplete", 0, Undefined))
    /\ pc' = "done"
    /\ UNCHANGED <<unitVars, packages, dryRun, idx, changes, results, updateResult,
                   gitResult, written, worktree, index, commits, repoTags>>

\* Mutant: the final summary is returned without notifying the observer
Complete_Silent ==
    /\ pc = "execute"
    /\ idx > Len(changes)
    /\ summary' = createSummary(results)
    /\ pc' = "done"
    /\ UNCHANGED <<unitVars, packages, dryRun, idx, changes, results, updateResult, gitResult,
                   written, worktree, index, commits, repoTags, log>>

\* process: createSummary(results), observer.onComplete(finalSummary)
Complete ==
    /\ pc = "execute"
    /\ idx > Len(changes)
    /\ summary' = createSummary(results)
    /\ log' = Append(log, Entry("onComplete", 0, Undefined))
    /\ pc' = "done"
    /\ UNCHANGED <<unitVars, packages, dryRun, idx, changes, results, updateResult,
                   gitResult, written, worktree, index, commits, repoTags>>

Next ==
    \/ AnalyzePackage
    \/ NoValidPackages
    \/ AnalysisComplete
    \/ ConfirmationAccepted
    \/ ConfirmationDeclined
    \/ SkipPackage
    \/ UpdatePackage
    \/ ProcessPackageThrows
    \/ StageAndCommit
    \/ CreateTag
    \/ Complete

Spec == Init /\ [][Next]_vars

\* The awaits of process() always resolve: the run keeps taking steps.
FairSpec == Spec /\ WF_vars(Next)


\* ================================================================ one updater alone
\*
\* The updaters are also exercised outside a run of process(): an updater is
\* handed manifest files (fs) and called (call).  A directory is the sequence of
\* its path segments, <<>> being the top directory; a manifest's content is the
\* sequence of its lines.

\* ---------------------------------------------------------------- bounds

MaxLines == 4      \* lines of a manifest handed to the text patch
MaxCalls == 2      \* calls made on one set of files

\* ---------------------------------------------------------------- paths and lines

TopDir  == <<>>
CoreDir == << "crates", "core" >>
AppDir  == << "crates", "app" >>
WebDir  == << "web" >>

ManifestFile(dir, name) == [dir |-> dir, name |-> name]

\* RustPackageUpdater.getPackageFilePath / NpmPackageUpdater.getPackageFilePath
CargoFile(dir) == ManifestFile(dir, "Cargo.toml")
NpmFile(dir) == ManifestFile(dir, "package.json")
LockFile(dir) == ManifestFile(dir, "package-lock.json")

\* node:path dirname
dirname(dir) == IF dir = <<>> THEN <<>> ELSE SubSeq(dir, 1, Len(dir) - 1)

Min(S) == CHOOSE x \in S : \A y \in S : x <= y
Max(S) == CHOOSE x \in S : \A y \in S : y <= x

\* One line of a manifest:
\*   "header"   [key]fmt           fmt = "": nothing but blanks follow the bracket
\*   "array"    [[key]]
\*   "string"   key = "value"      fmt is the spacing around the = sign
\*   "inline"   key = { path = "...", version = "value" }
\*   "inherit"  key.workspace = true
\*   "members"  members = [...]    value names the list, see MemberPatterns
\*   "json"     one package.json, its "version" member being value, fmt its layout
Line(t, key, value, fmt) == [t |-> t, key |-> key, value |-> value, fmt |-> fmt]

Header(name) == Line("header", name, "", "")
Assignment(key, value) == Line("string", key, value, " ")

\* The member lists the manifests use, as TOML.parse returns them
MemberPatterns(list) ==
    CASE list = "crates/core, crates/app" -> << CoreDir, AppDir >>
      [] list = "crates/*"                -> << << "crates", "*" >> >>
      [] list = "tools/*"                 -> << << "tools", "*" >> >>
      [] OTHER                            -> <<>>

\* ---------------------------------------------------------------- TOML.parse

\* The table line k belongs to: a header is a header whatever follows it on its line
TableOf(content, k) ==
    LET hs == { h \in 1..k : content[h].t \in { "header", "array" } }
    IN  IF hs = {} THEN "" ELSE content[Max(hs)].key

\* TOML.parse(content)[table][key] when it is a string, undefined otherwise
TomlString(content, table, key) ==
    LET ks == { k \in 1..Len(content) :
                  content[k].t = "string" /\ content[k].key = key /\ TableOf(content, k) = table }
    IN  IF ks = {} THEN Undefined ELSE content[Min(ks)].value

\* cargo.package.version is the table { workspace = true }
InheritsVersion(content) ==
    \E k \in 1..Len(content) :
        content[k].t = "inherit" /\ content[k].key = "version" /\ TableOf(content, k) = "package"

\* cargo.workspace is defined
HasWorkspace(content) ==
    \E k \in 1..Len(content) :
        content[k].t = "header"
        /\ content[k].key \in { "workspace", "workspace.package", "workspace.dependencies" }

\* cargo.workspace.members, [] when it is no array
Members(content) ==
    LET ks == { k \in 1..Len(content) :
                  content[k].t = "members" /\ TableOf(content, k) = "workspace" }
    IN  IF ks = {} THEN <<>> ELSE MemberPatterns(content[Min(ks)].value)

\* RustPackageUpdater.hasWorkspacePackageVersion
hasWorkspacePackageVersion(content) ==
    TomlString(content, "workspace.package", "version") # Undefined

\* ---------------------------------------------------------------- the cargo text patch

NoRange == [found |-> FALSE, start |-> 0, end |-> 0]

\* RustPackageUpdater.getSectionRange: the header line and the line that ends
\* the window (one past the last line at end of file); the body lies between.
\* Both patterns accept a header only when nothing but blanks follows it.
getSectionRange(content, sectionHeader) ==
    LET hs == { k \in 1..Len(content) :
                  content[k].t = "header" /\ content[k].key = sectionHeader /\ content[k].fmt = "" }
    IN  IF hs = {} THEN NoRange
        ELSE LET start == Min(hs)
                 next == { k \in (start + 1)..Len(content) :
                             content[k].t \in { "header", "array" } /\ content[k].fmt = "" }
             IN  [found |-> TRUE, start |-> start,
                  end |-> IF next = {} THEN Len(content) + 1 ELSE Min(next)]

\* The lines of the body of a range
Body(range) == (range.start + 1)..(range.end - 1)

PatchResult(content, updated) == [content |-> content, updated |-> updated]

\* RustPackageUpdater.updateVersionInSection
updateVersionInSection(content, sectionHeader, newVersion) ==
    LET section == getSectionRange(content, sectionHeader)
        \* versionRegex: a line of the body that starts with version = "
        matches == { k \in Body(section) :
                       content[k].t = "string" /\ content[k].key = "version" }
    IN  IF ~section.found THEN PatchResult(content, FALSE)
        ELSE IF matches = {} THEN PatchResult(content, FALSE)
        ELSE LET updatedContent == [content EXCEPT ![Min(matches)].value = newVersion]
             IN  IF updatedContent = content
                 THEN PatchResult(content, FALSE)
                 ELSE PatchResult(updatedContent, TRUE)

\* RustPackageUpdater.updateWorkspacePackage / updatePackageVersion
updateWorkspacePackage(content, newVersion) ==
    updateVersionInSection(content, "workspace.package", newVersion)

updatePackageVersion(content, newVersion) ==
    updateVersionInSection(content, "package", newVersion)

\* RustPackageUpdater.updateWorkspaceDependencies: every entry of the table
\* whose key is one of the names has its version rewritten, as a bare string or
\* as the version key of an inline table
updateWorkspaceDependencies(content, workspacePackageNames, newVersion) ==
    LET section == getSectionRange(content, "workspace.dependencies")
        updatedContent ==
            [ k \in 1..Len(content) |->
                IF /\ k \in Body(section)
                   /\ content[k].t \in { "string", "inline" }
                   /\ content[k].key \in workspacePackageNames
                THEN [content[k] EXCEPT !.value = newVersion]
                ELSE content[k] ]
    IN  IF ~section.found THEN PatchResult(content, FALSE)
        ELSE IF updatedContent = content THEN PatchResult(content, FALSE)
        ELSE PatchResult(updatedContent, TRUE)

\* ---------------------------------------------------------------- the cargo workspace

Exists(files, file) == file \in DOMAIN files

Found(dir) == [found |-> TRUE, dir |-> dir]
NotFound == [found |-> FALSE, dir |-> <<>>]

\* RustPackageUpdater.findWorkspaceRoot: walk upwards to the first manifest that
\* declares a workspace table
RECURSIVE findWorkspaceRoot(_, _)
findWorkspaceRoot(files, currentDir) ==
    IF Exists(files, CargoFile(currentDir)) /\ HasWorkspace(files[CargoFile(currentDir)])
    THEN Found(currentDir)
    ELSE IF currentDir = <<>> THEN NotFound
    ELSE findWorkspaceRoot(files, dirname(currentDir))

\* RustPackageUpdater.getRelativeWorkspacePath (<<>> stands for '.')
getRelativeWorkspacePath(workspaceRoot, packagePath) ==
    SubSeq(packagePath, Len(workspaceRoot) + 1, Len(packagePath))

\* RustPackageUpdater.getWorkspaceGlobPattern(pattern).test(path), for patterns
\* whose wildcards are whole segments: * is one segment, ** is one or more
RECURSIVE getWorkspaceGlobPattern(_, _)
getWorkspaceGlobPattern(pattern, path) ==
    IF pattern = <<>> THEN path = <<>>
    ELSE IF Head(pattern) = "**"
    THEN \E n \in 1..Len(path) :
            getWorkspaceGlobPattern(Tail(pattern), SubSeq(path, n + 1, Len(path)))
    ELSE /\ path # <<>>
         /\ Head(pattern) = "*" \/ Head(pattern) = Head(path)
         /\ getWorkspaceGlobPattern(Tail(pattern), Tail(path))

\* RustPackageUpdater.matchesWorkspaceMember
matchesWorkspaceMember(members, relativePath) ==
    \E m \in 1..Len(members) :
        \/ members[m] = relativePath
        \/ /\ \E g \in 1..Len(members[m]) : members[m][g] \in { "*", "**" }
           /\ getWorkspaceGlobPattern(members[m], relativePath)

\* RustPackageUpdater.resolveWorkspaceRoot
resolveWorkspaceRoot(files, packagePath, content) ==
    IF HasWorkspace(content) THEN Found(packagePath)
    ELSE LET workspaceRoot == findWorkspaceRoot(files, packagePath)
             members == Members(files[CargoFile(workspaceRoot.dir)])
         IN  IF ~workspaceRoot.found THEN NotFound
             ELSE IF workspaceRoot.dir = packagePath THEN workspaceRoot
             ELSE IF members = <<>> THEN workspaceRoot
             ELSE IF matchesWorkspaceMember(
                         members, getRelativeWorkspacePath(workspaceRoot.dir, packagePath))
             THEN workspaceRoot
             ELSE NotFound

\* A version that was read / the Error thrown instead
Read(version) == [ok |-> TRUE, value |-> version]
Thrown(message) == [ok |-> FALSE, value |-> message]

\* RustPackageUpdater.readWorkspaceVersion
readWorkspaceVersion(files, workspaceRoot) ==
    LET version == TomlString(files[CargoFile(workspaceRoot)], "workspace.package", "version")
    IN  IF version # Undefined THEN Read(version)
        ELSE Thrown("No version field found in [workspace.package] section")

\* RustPackageUpdater.readVersion
readVersion(files, packagePath) ==
    IF ~Exists(files, CargoFile(packagePath)) THEN Thrown("ENOENT: no such file or directory")
    ELSE LET content == files[CargoFile(packagePath)]
             workspaceRoot == findWorkspaceRoot(files, packagePath)
         IN  IF TomlString(content, "package", "version") # Undefined
             THEN Read(TomlString(content, "package", "version"))
             ELSE IF hasWorkspacePackageVersion(content)
             THEN Read(TomlString(content, "workspace.package", "version"))
             ELSE IF InheritsVersion(content)
             THEN IF ~workspaceRoot.found
                  THEN Thrown("No workspace root found")
                  ELSE readWorkspaceVersion(files, workspaceRoot.dir)
             ELSE Thrown("No version field found in [package] section")

\* Mutant: only the members' own versions are patched, their files are not reported
updateWorkspaceMembers_ReportsNoFile(files, workspaceRoot, content, newVersion, dry) ==
    LET members == Members(content)
        present == { d \in { workspaceRoot \o members[m] : m \in 1..Len(members) } :
                       Exists(files, CargoFile(d)) }
        patched == { d \in present :
                       /\ TomlString(files[CargoFile(d)], "package", "version") \notin { Undefined, newVersion }
                       /\ updatePackageVersion(files[CargoFile(d)], newVersion).updated }
    IN  [ updatedFiles |-> {},
          memberNames  |-> { TomlString(files[CargoFile(d)], "package", "name") : d \in present }
                               \ { Undefined },
          files |-> IF dry THEN files
                    ELSE [ f \in DOMAIN files |->
                             IF f \in { CargoFile(d) : d \in patched }
                             THEN updatePackageVersion(files[f], newVersion).content
                             ELSE files[f] ] ]

\* RustPackageUpdater.updateWorkspaceMembers: each entry of members is joined to
\* the root as it stands; a member whose manifest is missing is passed over; a
\* patched member is written at once unless dryRun
updateWorkspaceMembers(files, workspaceRoot, content, newVersion, dry) ==
    LET members == Members(content)
        present == { d \in { workspaceRoot \o members[m] : m \in 1..Len(members) } :
                       Exists(files, CargoFile(d)) }
        patched == { d \in present :
                       /\ TomlString(files[CargoFile(d)], "package", "version") \notin { Undefined, newVersion }
                       /\ updatePackageVersion(files[CargoFile(d)], newVersion).updated }
    IN  [ updatedFiles |-> { CargoFile(d) : d \in patched },
          memberNames  |-> { TomlString(files[CargoFile(d)], "package", "name") : d \in present }
                               \ { Undefined },
          files |-> IF dry THEN files
                    ELSE [ f \in DOMAIN files |->
                             IF f \in { CargoFile(d) : d \in patched }
                             THEN updatePackageVersion(files[f], newVersion).content
                             ELSE files[f] ] ]

\* ---------------------------------------------------------------- updateVersion

\* UpdateResult
UpdateSuccess(oldVersion, newVersion, additionalFiles) ==
    [success |-> TRUE, error |-> Undefined, oldVersion |-> oldVersion,
     newVersion |-> newVersion, additionalFiles |-> additionalFiles]
UpdateFailure(error) ==
    [success |-> FALSE, error |-> error, oldVersion |-> Undefined,
     newVersion |-> Undefined, additionalFiles |-> {}]

\* What a call has done when it returns: its result and the files on disk
Did(result, files) == [result |-> result, files |-> files]

\* RustPackageUpdater.updateVersion: updatedFiles without the package's own file
AdditionalFiles(updatedFiles, filePath) == updatedFiles \ { filePath }

\* RustPackageUpdater.updateVersion
RustUpdateVersion(files, packagePath, newVersion, dry) ==
    LET filePath == CargoFile(packagePath)
        content == files[filePath]
        oldVersion == readVersion(files, packagePath)
        workspaceRoot == resolveWorkspaceRoot(files, packagePath, content)
        rootFile == CargoFile(workspaceRoot.dir)
        \* workspaceInfo.originalContent
        original == IF workspaceRoot.found THEN files[rootFile] ELSE <<>>
        isRoot == workspaceRoot.found /\ workspaceRoot.dir = packagePath
        usesWorkspaceVersion == workspaceRoot.found /\ hasWorkspacePackageVersion(original)
        workspaceUpdate == updateWorkspacePackage(original, newVersion)
        memberUpdate ==
            updateWorkspaceMembers(files, workspaceRoot.dir, original, newVersion, dry)
        \* workspaceInfo.content after the dependency table was rewritten
        propagated ==
            updateWorkspaceDependencies(workspaceUpdate.content, memberUpdate.memberNames,
                                        newVersion).content
        packageUpdate ==
            updatePackageVersion(IF usesWorkspaceVersion /\ isRoot THEN propagated ELSE content,
                                 newVersion)
        \* the writes of the package file and of the root, then the result
        Return(disk, updatedContent, workspaceContent, updatedFiles) ==
            Did(UpdateSuccess(oldVersion.value, newVersion, AdditionalFiles(updatedFiles, filePath)),
                IF dry \/ updatedFiles = {} THEN disk
                ELSE [ f \in DOMAIN disk |->
                         IF f = rootFile /\ workspaceRoot.found /\ workspaceContent # original
                         THEN workspaceContent
                         ELSE IF f = filePath /\ updatedContent # content
                         THEN updatedContent
                         ELSE disk[f] ])
    IN  IF ~Exists(files, filePath)
        THEN Did(UpdateFailure("ENOENT: no such file or directory"), files)
        ELSE IF ~oldVersion.ok
        THEN Did(UpdateFailure(oldVersion.value), files)
        ELSE IF oldVersion.value = newVersion
        THEN Did(UpdateSuccess(oldVersion.value, newVersion, {}), files)
        ELSE IF usesWorkspaceVersion
        THEN IF ~workspaceUpdate.updated
             THEN Did(UpdateFailure("Failed to update workspace version"), files)
             ELSE IF TomlString(content, "package", "version") = Undefined
             THEN Return(memberUpdate.files, IF isRoot THEN propagated ELSE content,
                         propagated, { rootFile } \cup memberUpdate.updatedFiles)
             ELSE IF packageUpdate.updated
             THEN Return(memberUpdate.files, packageUpdate.content,
                         IF isRoot THEN packageUpdate.content ELSE propagated,
                         { rootFile, filePath } \cup memberUpdate.updatedFiles)
             ELSE Did(UpdateFailure("Failed to update version"), memberUpdate.files)
        ELSE IF packageUpdate.updated
        THEN Return(files, packageUpdate.content, original, { filePath })
        ELSE Did(UpdateFailure("Failed to update version"), files)

\* JSON.stringify(pkg, null, 2) + '\n' of a package.json with its version set
Stringify(content, version) ==
    << Line("json", "version", version, "2 spaces, final newline") >>

\* package-lock.json as npm install leaves it
LockContent(version) == << Line("json", "lock", version, "npm") >>

\* What npm install can do: it exits 0 having written package-lock.json, or fails
InstallOutcomes == { "installed", "failed" }

\* NpmPackageUpdater.updateVersion
NpmUpdateVersion(files, packagePath, newVersion, dry, install) ==
    LET filePath == NpmFile(packagePath)
        lockFilePath == LockFile(packagePath)
        oldVersion == files[filePath][1].value
        rewritten == [files EXCEPT ![filePath] = Stringify(files[filePath], newVersion)]
        installed == [ f \in DOMAIN files \cup { lockFilePath } |->
                         IF f = lockFilePath THEN LockContent(newVersion) ELSE rewritten[f] ]
    IN  IF ~Exists(files, filePath)
        THEN Did(UpdateFailure("ENOENT: no such file or directory"), files)
        ELSE IF dry
        THEN Did(UpdateSuccess(oldVersion, newVersion, { lockFilePath }), files)
        ELSE IF install = "failed"
        THEN Did(UpdateFailure("npm install failed with exit code 1"), rewritten)
        ELSE Did(UpdateSuccess(oldVersion, newVersion, { lockFilePath }), installed)

\* ---------------------------------------------------------------- files and calls

Versions == { "1.0.0", "2.0.0" }

\* The version every call asks for
Target == "2.0.0"

\* While an updater is exercised alone no run of process() is under way
RunIdle ==
    /\ packages = <<>> /\ dryRun = FALSE /\ pc = "done" /\ idx = 1
    /\ changes = <<>> /\ results = <<>>
    /\ updateResult = NoUpdateResult /\ gitResult = NoGitResult /\ summary = NoSummary
    /\ written = {} /\ worktree = {} /\ index = {} /\ commits = <<>>
    /\ repoTags = {} /\ log = <<>>

\* Cargo.toml of the top directory: a workspace, with or without a package of
\* its own and a shared version, whose dependency table names the core crate
RootManifests ==
    { own \o << Header("workspace"), Line("members", "members", list, "") >> \o shared
          \o << Header("workspace.dependencies"), dep >> :
        own \in { <<>>,
                  << Header("package"), Assignment("name", "root"), Assignment("version", "1.0.0") >>,
                  << Header("package"), Assignment("name", "root"), Line("inherit", "version", "", "") >> },
        list \in { "crates/core, crates/app", "crates/*", "tools/*" },
        shared \in { <<>> } \cup
                   { << Header("workspace.package"), Assignment("version", v) >> : v \in Versions },
        dep \in { Assignment("core", "1.0.0"), Line("inline", "core", "1.0.0", "") } }

\* crates/core/Cargo.toml: an explicit version, or the inherited one
CoreManifests ==
    { << Header("package"), Assignment("name", "core"), version >> :
        version \in { Assignment("version", v) : v \in Versions }
                    \cup { Line("inherit", "version", "", "") } }

\* crates/app/Cargo.toml: it depends on core at 1.0.0
AppManifests ==
    { << Header("package"), Assignment("name", "app"), version,
         Header("dependencies"), Assignment("core", "1.0.0") >> :
        version \in { Assignment("version", "1.0.0"), Line("inherit", "version", "", "") } }

\* web/package.json, in npm's own layout or another one
NpmManifests ==
    { << Line("json", "version", v, layout) >> :
        v \in Versions, layout \in { "2 spaces, final newline", "4 spaces" } }

\* The function with domain D that maps f to content[f]
Files(D, content) == [ f \in D |-> content[f] ]

\* The trees an updater is handed: a cargo workspace (the root manifest and the
\* app crate may be missing), or an npm package with or without its lock file
CargoTrees ==
    { Files(D, [ f \in { CargoFile(TopDir), CargoFile(CoreDir), CargoFile(AppDir) } |->
                   IF f = CargoFile(TopDir) THEN root
                   ELSE IF f = CargoFile(CoreDir) THEN core ELSE app ]) :
        root \in RootManifests, core \in CoreManifests, app \in AppManifests,
        D \in { { CargoFile(CoreDir) },
                { CargoFile(TopDir), CargoFile(CoreDir) },
                { CargoFile(TopDir), CargoFile(CoreDir), CargoFile(AppDir) } } }

NpmTrees ==
    { Files(D, [ f \in { NpmFile(WebDir), LockFile(WebDir) } |->
                   IF f = NpmFile(WebDir) THEN pkg ELSE LockContent(pkg[1].value) ]) :
        pkg \in NpmManifests,
        D \in { { NpmFile(WebDir) }, { NpmFile(WebDir), LockFile(WebDir) } } }

UpdaterInit ==
    /\ RunIdle
    /\ fs \in CargoTrees \cup NpmTrees
    /\ call = NoCall

\* The record of one updateVersion call
UpdateCall(type, dir, dry, did) ==
    [op |-> "updateVersion", type |-> type, dir |-> dir, newVersion |-> Target,
     dryRun |-> dry, result |-> did.result, before |-> fs, n |-> call.n + 1]

\* PackageUpdaterFactory.getUpdater('cargo').updateVersion(dir, Target, dry)
CallRustUpdateVersion ==
    /\ call.n < MaxCalls
    /\ Exists(fs, CargoFile(CoreDir))
    /\ \E dir \in { TopDir, CoreDir, AppDir }, dry \in BOOLEAN :
         LET did == RustUpdateVersion(fs, dir, Target, dry)
         IN  /\ fs' = did.files
             /\ call' = UpdateCall("cargo", dir, dry, did)
    /\ UNCHANGED runVars

\* PackageUpdaterFactory.getUpdater('npm').updateVersion(dir, Target, dry)
CallNpmUpdateVersion ==
    /\ call.n < MaxCalls
    /\ Exists(fs, NpmFile(WebDir))
    /\ \E dry \in BOOLEAN, install \in InstallOutcomes :
         LET did == NpmUpdateVersion(fs, WebDir, Target, dry, install)
         IN  /\ fs' = did.files
             /\ call' = UpdateCall("npm", WebDir, dry, did)
    /\ UNCHANGED runVars

UpdaterNext ==
    \/ CallRustUpdateVersion
    \/ CallNpmUpdateVersion

UpdaterSpec == UpdaterInit /\ [][UpdaterNext]_vars

\* ---------------------------------------------------------------- the text patch alone

\* The lines a manifest handed to the patch is made of
PatchLines ==
    { Header("package"),
      Header("workspace.package"),
      Line("header", "dependencies.serde", "", " # pinned"),
      Line("array", "bin", "", ""),
      Line("string", "version", "1.0.0", " "),
      Line("string", "version", "2.0.0", "    "),
      Line("string", "name", "core", " "),
      Line("inherit", "version", "", "") }

PatchSections == { "package", "workspace.package" }

PatchInit ==
    /\ RunIdle
    /\ fs \in { Files({ CargoFile(TopDir) }, [ f \in { CargoFile(TopDir) } |-> content ]) :
                  content \in SeqsUpTo(PatchLines, MaxLines) }
    /\ call = NoCall

\* updateVersionInSection(content, section, Target), its caller writing the
\* content it returns
ApplyPatch ==
    /\ call.n < MaxCalls
    /\ \E section \in PatchSections :
         LET content == fs[CargoFile(TopDir)]
             result == updateVersionInSection(content, section, Target)
         IN  /\ fs' = [fs EXCEPT ![CargoFile(TopDir)] = result.content]
             /\ call' = [op |-> "patch", section |-> section, newVersion |-> Target,
                         result |-> result, before |-> fs, n |-> call.n + 1]
    /\ UNCHANGED runVars

PatchNext == ApplyPatch

PatchSpec == PatchInit /\ [][PatchNext]_vars

\* ---------------------------------------------------------------- member patterns as text

\* A member pattern and a relative path are handed to matchesWorkspaceMember as
\* strings; here a string is the sequence of its characters.

MaxPattern == 3    \* characters of a member pattern
MaxPath == 4       \* characters of a relative path

PatternChars == { "a", "/", "*", "?" }
PathChars == { "a", "/", "?" }

\* pattern.split(/(\*\*|\*)/) joined as the source of the RegExp: "**" stands
\* for .* and "*" for [^/]*; of the characters drawn here none is in the class
\* the code escapes, [.+^${}()|[\]\\], so "a" and "/" match themselves and "?"
\* reaches the RegExp as it is
RECURSIVE GlobItems(_)
GlobItems(pattern) ==
    IF pattern = <<>> THEN <<>>
    ELSE IF Len(pattern) >= 2 /\ pattern[1] = "*" /\ pattern[2] = "*"
    THEN << "**" >> \o GlobItems(SubSeq(pattern, 3, Len(pattern)))
    ELSE << pattern[1] >> \o GlobItems(Tail(pattern))

\* The number of "?" that follow item k
Quantifiers(items, k) ==
    CHOOSE n \in 0..(Len(items) - k) :
        /\ \A j \in 1..n : items[k + j] = "?"
        /\ k + n = Len(items) \/ items[k + n + 1] # "?"

\* new RegExp(source) does not throw: a "?" needs something to repeat.  A
\* character takes "?" (optional) and "??" (optional, lazy), a starred class
\* takes one "?" (lazy)
GlobRegExpValid(items) ==
    /\ items # <<>> => items[1] # "?"
    /\ \A k \in 1..Len(items) :
         items[k] # "?" =>
            Quantifiers(items, k) <= (IF items[k] \in { "*", "**" } THEN 1 ELSE 2)

\* RegExp.prototype.test for ^source$, from item k on
RECURSIVE GlobRegExpTest(_, _, _)
GlobRegExpTest(items, k, path) ==
    IF k > Len(items) THEN path = <<>>
    ELSE LET next == k + 1 + Quantifiers(items, k)
             rest(n) == SubSeq(path, n + 1, Len(path))
         IN  CASE items[k] = "**" ->
                    \E n \in 0..Len(path) : GlobRegExpTest(items, next, rest(n))
               [] items[k] = "*" ->
                    \E n \in 0..Len(path) :
                        /\ \A j \in 1..n : path[j] # "/"
                        /\ GlobRegExpTest(items, next, rest(n))
               [] OTHER ->
                    \/ /\ path # <<>> /\ path[1] = items[k]
                       /\ GlobRegExpTest(items, next, rest(1))
                    \/ /\ Quantifiers(items, k) > 0
                       /\ GlobRegExpTest(items, next, path)

\* RustPackageUpdater.matchesWorkspaceMember([member], relativePath) on text:
\* "true", "false", or the SyntaxError of new RegExp
matchesMemberText(member, relativePath) ==
    IF member = relativePath THEN "true"
    ELSE IF \A k \in 1..Len(member) : member[k] # "*" THEN "false"
    ELSE IF ~GlobRegExpValid(GlobItems(member)) THEN "SyntaxError"
    ELSE IF GlobRegExpTest(GlobItems(member), 1, relativePath) THEN "true"
    ELSE "false"

GlobInit ==
    /\ RunIdle
    /\ fs = NoFiles
    /\ \E member \in SeqsUpTo(PatternChars, MaxPattern), path \in SeqsUpTo(PathChars, MaxPath) :
         call = [op |-> "members", member |-> member, path |-> path, n |-> 0]

\* matchesWorkspaceMember([member], path)
MatchMember ==
    /\ call.op = "members"
    /\ call' = [op |-> "matchesWorkspaceMember", member |-> call.member, path |-> call.path,
                result |-> matchesMemberText(call.member, call.path), n |-> 1]
    /\ UNCHANGED <<fs, runVars>>

GlobNext == MatchMember

GlobSpec == GlobInit /\ [][GlobNext]_vars

\* ---------------------------------------------------------------- the go updater alone

\* A Go module's version is read from the tags of the repository (repoTags).  A
\* tag is the sequence of its characters, a version x.y.z standing as one
\* character; a module is named by its path relative to the git root.

MaxTags == 3       \* tags of the repository

GoVersions == { "1.2.3", "1.10.0", "2.0.0" }

\* a.split('.').map((n) => parseInt(n, 10))
VersionParts(version) ==
    CASE version = "1.2.3"  -> << 1, 2, 3 >>
      [] version = "1.10.0" -> << 1, 10, 0 >>
      [] version = "2.0.0"  -> << 2, 0, 0 >>
      [] OTHER              -> << 0, 0, 0 >>

\* The modules of the repository: the root, s, va and s/va
GoModules == { <<>>, << "s" >>, << "v", "a" >>, << "s", "/", "v", "a" >> }

\* GoPackageUpdater.getTagPrefix
getTagPrefix(packagePath) ==
    IF packagePath = <<>> THEN << "v" >> ELSE packagePath \o << "/", "v" >>

\* The tag git holds for a version of a module, and a tag that names no version
GoTag(module, version) == getTagPrefix(module) \o << version >>
GoTags == { GoTag(m, v) : m \in GoModules, v \in GoVersions } \cup { << "v", "a" >> }

\* tag.startsWith(tagPrefix)
startsWith(tag, prefix) ==
    Len(prefix) <= Len(tag) /\ SubSeq(tag, 1, Len(prefix)) = prefix

\* tag.match(/v(\d+\.\d+\.\d+.*)$/): the places where a v is followed by a version
VersionMatches(tag) ==
    { k \in 1..(Len(tag) - 1) : tag[k] = "v" /\ tag[k + 1] \in GoVersions }

\* The comparator of the sort: a comes before b (returns a negative number)
GoNewer(a, b) ==
    LET x == VersionParts(a)
        y == VersionParts(b)
    IN  \/ x[1] > y[1]
        \/ x[1] = y[1] /\ x[2] > y[2]
        \/ x[1] = y[1] /\ x[2] = y[2] /\ x[3] > y[3]

\* go.mod of a module
GoModFile(dir) == ManifestFile(dir, "go.mod")
GoMods == { << Line("module", "module", "github.com/org/repo", "") >>, <<>> }

\* What git.tags() can do
GitOutcomes == { "tags", "rejects" }

\* GoPackageUpdater.readVersion
GoReadVersion(files, tags, packagePath, git) ==
    LET filePath == GoModFile(packagePath)
        tagPrefix == getTagPrefix(packagePath)
        packageTags ==
            { tag[Min(VersionMatches(tag)) + 1] :
                tag \in { g \in tags : startsWith(g, tagPrefix) /\ VersionMatches(g) # {} } }
    IN  IF ~Exists(files, filePath) THEN Thrown("ENOENT: no such file or directory")
        ELSE IF \A k \in 1..Len(files[filePath]) : files[filePath][k].t # "module"
        THEN Thrown("No module directive found")
        ELSE IF git = "rejects" THEN Read("0.0.0")
        ELSE IF packageTags = {} THEN Read("0.0.0")
        ELSE Read(CHOOSE a \in packageTags : \A b \in packageTags : ~GoNewer(b, a))

GoInit ==
    /\ packages = <<>> /\ dryRun = FALSE /\ pc = "done" /\ idx = 1
    /\ changes = <<>> /\ results = <<>>
    /\ updateResult = NoUpdateResult /\ gitResult = NoGitResult /\ summary = NoSummary
    /\ written = {} /\ worktree = {} /\ index = {} /\ commits = <<>> /\ log = <<>>
    /\ repoTags \in { T \in SUBSET GoTags : Cardinality(T) <= MaxTags }
    /\ \E gomod \in GoMods :
         fs \in { Files(D, [ f \in { GoModFile(m) : m \in GoModules } |-> gomod ]) :
                    D \in { {}, { GoModFile(m) : m \in GoModules } } }
    /\ call = NoCall

\* PackageUpdaterFactory.getUpdater('go').readVersion(dir)
CallGoReadVersion ==
    /\ call.n < 1
    /\ \E dir \in GoModules, git \in GitOutcomes :
         call' = [op |-> "readVersion", type |-> "go", dir |-> dir, git |-> git,
                  result |-> GoReadVersion(fs, repoTags, dir, git), n |-> call.n + 1]
    /\ UNCHANGED <<fs, runVars>>

GoNext == CallGoReadVersion

GoSpec == GoInit /\ [][GoNext]_vars

\* ---------------------------------------------------------------- the bump command

\* versions.toml holds one [[package]] block per package; the bump command
\* raises the version of the packages at or under the current directory.  A
\* version line is written  version = "x"  (fmt " "),  version = 'x'  (fmt "'")
\* or  version="x"  (fmt "").

VersionsToml == ManifestFile(TopDir, "versions.toml")

PkgA == << "p", "a" >>
PkgB == << "p", "b" >>

BumpTypes == { "major", "minor", "patch" }

\* bumpVersion, for the versions the manifests hold
bumpVersion(version, type) ==
    CASE version = "1.0.0" /\ type = "major" -> "2.0.0"
      [] version = "1.0.0" /\ type = "minor" -> "1.1.0"
      [] version = "1.0.0" /\ type = "patch" -> "1.0.1"
      [] version = "2.0.0" /\ type = "major" -> "3.0.0"
      [] version = "2.0.0" /\ type = "minor" -> "2.1.0"
      [] version = "2.0.0" /\ type = "patch" -> "2.0.1"

\* The [[package]] line that opens the block of line k, 0 before the first block
BlockOf(content, k) ==
    LET bs == { b \in 1..k : content[b].t = "array" /\ content[b].key = "package" }
    IN  IF bs = {} THEN 0 ELSE Max(bs)

\* ConfigParser.parse: the path and the version of every block, in file order
ParsedPackages(content) ==
    LET blocks == { b \in 1..Len(content) : content[b].t = "array" /\ content[b].key = "package" }
        Value(b, key) ==
            content[CHOOSE k \in 1..Len(content) :
                        BlockOf(content, k) = b /\ content[k].t = "string" /\ content[k].key = key].value
    IN  [ n \in 1..Cardinality(blocks) |->
            LET b == CHOOSE x \in blocks : Cardinality({ y \in blocks : y <= x }) = n
            IN  [path |-> Value(b, "path"), version |-> Value(b, "version"), block |-> b] ]

\* line.startsWith('path = ') / line.startsWith('version = ')
StartsWithKey(line, key) == line.t = "string" /\ line.key = key /\ line.fmt \in { " ", "'" }

\* updateTomlVersion: the block is entered at its matching path line and left
\* at the next [[package]] line; the first version line met inside is rewritten
updateTomlVersion(content, packagePath, newVersion) ==
    LET packageMatched(i) ==
            \E j \in 1..i :
                /\ StartsWithKey(content[j], "path") /\ content[j].value = packagePath
                /\ \A k \in (j + 1)..i : ~(content[k].t = "array" /\ content[k].key = "package")
        hits == { i \in 1..Len(content) :
                    packageMatched(i) /\ StartsWithKey(content[i], "version") }
    IN  IF hits = {} THEN content
        ELSE [content EXCEPT ![Min(hits)] = Line("string", "version", newVersion, " ")]

\* handleBump: the packages at, above or under the current directory
TargetPackages(pkgs, relativeToConfig) ==
    LET Under(dir, parent) ==
            /\ parent # <<>>
            /\ Len(parent) < Len(dir)
            /\ SubSeq(dir, 1, Len(parent)) = parent
    IN  SelectSeq(pkgs, LAMBDA pkg :
            \/ pkg.path = relativeToConfig
            \/ Under(relativeToConfig, pkg.path)
            \/ Under(pkg.path, relativeToConfig))

\* handleBump: updateTomlVersion for every entry of the bump plan, in order
RECURSIVE ApplyBumpPlan(_, _, _)
ApplyBumpPlan(content, plan, type) ==
    IF plan = <<>> THEN content
    ELSE ApplyBumpPlan(
             updateTomlVersion(content, Head(plan).path, bumpVersion(Head(plan).version, type)),
             Tail(plan), type)

\* One block of versions.toml: its two keys in either order
BumpBlocks(path) ==
    { << Line("array", "package", "", "") >> \o keys :
        keys \in UNION { { << Line("string", "path", path, " "), version >>,
                           << version, Line("string", "path", path, " ") >> } :
                         version \in { Line("string", "version", v, f) :
                                         v \in Versions, f \in { " ", "'", "" } } } }

BumpManifests ==
    { head \o a \o b :
        head \in { <<>>, << Line("comment", "", "# Project configuration", "") >> },
        a \in BumpBlocks(PkgA), b \in BumpBlocks(PkgB) }

BumpInit ==
    /\ RunIdle
    /\ fs \in { Files({ VersionsToml }, [ f \in { VersionsToml } |-> content ]) :
                  content \in BumpManifests }
    /\ call = NoCall

\* handleBump up to "Updated versions.toml"; what follows is a run of process()
\* on the re-parsed packages, which reads versions.toml and does not write it
Bump ==
    /\ call.n < 1
    /\ \E type \in BumpTypes, cwd \in { PkgA, PkgB, << "p" >>, <<>> }, answer \in { "yes", "no" } :
         LET content == fs[VersionsToml]
             plan == TargetPackages(ParsedPackages(content), cwd)
             exit == IF plan = <<>> THEN "No package found for current directory"
                     ELSE IF answer = "no" THEN "Cancelled"
                     ELSE "Updated versions.toml"
         IN  /\ fs' = IF exit = "Updated versions.toml"
                      THEN [fs EXCEPT ![VersionsToml] = ApplyBumpPlan(content, plan, type)]
                      ELSE fs
             /\ call' = [op |-> "bump", type |-> type, plan |-> plan, result |-> exit,
                         before |-> fs, n |-> call.n + 1]
    /\ UNCHANGED runVars

BumpNext == Bump

BumpSpec == BumpInit /\ [][BumpNext]_vars

\* ---------------------------------------------------------------- a run over cargo manifests

\* process() with the cargo updater acting on manifests: the descriptors name
\* the crates of one workspace, every one with the same target version.  git
\* changes no manifest, so stageAndCommit is its outcome alone.

\* A cargo descriptor of versions.toml
CargoPackage(dir) ==
    [type |-> "cargo", path |-> dir, version |-> Target, create_tag |-> Undefined,
     relativePath |-> Undefined]

PlanPackages ==
    { << CargoPackage(CoreDir) >>, << CargoPackage(AppDir) >>,
      << CargoPackage(CoreDir), CargoPackage(AppDir) >>,
      << CargoPackage(AppDir), CargoPackage(CoreDir) >> }

PlanInit ==
    /\ packages \in PlanPackages
    /\ fs \in { tree \in CargoTrees : Exists(tree, CargoFile(TopDir)) }
    /\ dryRun = FALSE /\ pc = "analyze" /\ idx = 1
    /\ changes = <<>> /\ results = <<>>
    /\ updateResult = NoUpdateResult /\ gitResult = NoGitResult /\ summary = NoSummary
    /\ written = {} /\ worktree = {} /\ index = {} /\ commits = <<>>
    /\ repoTags = {} /\ log = <<>>
    /\ call = NoCall

\* analyzeChanges: the descriptors whose manifest exists and whose version can
\* be read, each with the version read for it
CargoChanges(files, pkgs) ==
    LET valid == { i \in 1..Len(pkgs) :
                     /\ Exists(files, CargoFile(pkgs[i].path))
                     /\ readVersion(files, pkgs[i].path).ok }
        current(i) == readVersion(files, pkgs[i].path).value
    IN  [ n \in 1..Cardinality(valid) |->
            LET i == CHOOSE x \in valid : Cardinality({ y \in valid : y <= x }) = n
            IN  [config |-> i, currentVersion |-> current(i), newVersion |-> pkgs[i].version,
                 needsUpdate |-> current(i) # pkgs[i].version,
                 willCreateTag |-> current(i) # pkgs[i].version /\ shouldCreateTag(pkgs[i]),
                 tagName |-> IF current(i) # pkgs[i].version /\ shouldCreateTag(pkgs[i])
                             THEN getTagName(pkgs[i]) ELSE Undefined] ]

\* process, up to the execution loop: the analysis and the confirmation
PlanAnalyze ==
    /\ pc = "analyze"
    /\ \E autoConfirm \in BOOLEAN, answer \in BOOLEAN :
         LET plan == CargoChanges(fs, packages)
         IN  /\ changes' = plan
             /\ IF plan = <<>> \/ ~onConfirmationPrompt(autoConfirm, answer)
                THEN pc' = "done" /\ summary' = createSummary(<<>>)
                ELSE pc' = "execute" /\ summary' = summary
    /\ UNCHANGED <<unitVars, packages, dryRun, idx, results, updateResult, gitResult,
                   written, worktree, index, commits, repoTags, log>>

\* process: a change that needs no update is skipped
PlanSkip ==
    /\ AtChange
    /\ ~changes[idx].needsUpdate
    /\ results' = Append(results, SkippedResult(changes[idx].config))
    /\ idx' = idx + 1
    /\ UNCHANGED <<unitVars, packages, dryRun, pc, changes, updateResult, gitResult, summary,
                   written, worktree, index, commits, repoTags, log>>

\* processPackage: updateVersion on the manifests, then stageAndCommit
PlanUpdate ==
    /\ AtChange
    /\ changes[idx].needsUpdate
    /\ LET i == changes[idx].config
           did == RustUpdateVersion(fs, packages[i].path, packages[i].version, dryRun)
       IN  /\ fs' = did.files
           /\ \E commit \in { GitResult(TRUE, Undefined), GitResult(FALSE, "git commit failed") } :
                results' = Append(results,
                    IF ~did.result.success THEN PatchFailedResult(i, did.result)
                    ELSE IF ~commit.success THEN CommitFailedResult(i, did.result, commit)
                    ELSE UpdatedResult(i, did.result, commit))
    /\ idx' = idx + 1
    /\ UNCHANGED <<call, packages, dryRun, pc, changes, updateResult, gitResult, summary,
                   written, worktree, index, commits, repoTags, log>>

\* process: the final summary
PlanComplete ==
    /\ pc = "execute"
    /\ idx > Len(changes)
    /\ summary' = createSummary(results)
    /\ pc' = "done"
    /\ UNCHANGED <<unitVars, packages, dryRun, idx, changes, results, updateResult,
                   gitResult, written, worktree, index, commits, repoTags, log>>

PlanNext ==
    \/ PlanAnalyze
    \/ PlanSkip
    \/ PlanUpdate
    \/ PlanComplete

PlanSpec == PlanInit /\ [][PlanNext]_vars

\* ================================================================ properties

\* Positions of the log entries of one kind
LogAt(op) == { k \in 1..Len(log) : log[k].op = op }
LogAtInfo(op, info) == { k \in 1..Len(log) : log[k].op = op /\ log[k].info = info }

Declined == LogAtInfo("onConfirmationPrompt", "no") # {}
Confirmed == LogAtInfo("onConfirmationPrompt", "yes") # {}

\* The mutating collaborator calls: updater.updateVersion, gitOps.stageAndCommit,
\* gitOps.createTag
MutatingCalls == LogAt("updateVersion") \cup LogAt("stageAndCommit") \cup LogAt("createTag")

\* C1: when the confirmation prompt resolves false, process() performs no
\* mutation: no updateVersion, stageAndCommit or createTag call is made, no file
\* is written, staged or committed, and the returned summary has updated = 0 and
\* commits = 0.
C1_DeclineMutatesNothing ==
    Declined =>
        /\ pc = "done"
        /\ MutatingCalls = {}
        /\ written = {} /\ worktree = {} /\ index = {} /\ commits = <<>>
        /\ results = <<>>
        /\ summary.none = FALSE
        /\ summary.updated = 0
        /\ summary.commits = 0

\* C1 witness: a two-descriptor plan with an update pending was declined
C1_Witness ==
    /\ Declined
    /\ Len(changes) = 2
    /\ \E k \in 1..Len(changes) : changes[k].needsUpdate

\* The planned descriptors whose processing has started, in the order it started
Attempts ==
    SelectSeq(log, LAMBDA e : e.op \in { "onPackageStart", "onPackageSkipped" })

Committed == UNION { commits[c] : c \in 1..Len(commits) }

\* C3: every commit created during EXECUTE holds files of one descriptor only.
C3_OneCommitPerPackage ==
    \A c \in 1..Len(commits) :
        \A f \in commits[c], g \in commits[c] : f.pkg = g.pkg

\* C4: when the engine starts patching a descriptor, no modification made
\* while processing an earlier descriptor is still uncommitted.
C4_NoEarlierUncommittedChange ==
    (AtChange /\ changes[idx].needsUpdate) => (worktree \cup index = {})

\* The log entries about package i
CommitFailedFor(i) == \E k \in LogAtInfo("stageAndCommit", "failure") : log[k].i = i
PatchFailedFor(i) == \E k \in LogAtInfo("updateVersion", "failure") : log[k].i = i

\* C5: a descriptor whose patch succeeded and whose stageAndCommit failed is
\* recorded as updated with a failed gitResult and no error, unlike a patch
\* failure (not updated, with an error); its written files stay modified, no
\* tag is requested for it and Summary.commits does not count it.
C5_UpdatedButUncommitted ==
    /\ \A k \in 1..Len(results) :
         LET r == results[k] IN
         /\ CommitFailedFor(r.package) =>
              /\ r.updated /\ ~r.skipped /\ ~Truthy(r.error)
              /\ r.updateResult.success
              /\ ~r.gitResult.none /\ ~r.gitResult.success
              /\ { f \in written : f.pkg = r.package } \subseteq
                     (worktree \cup index \cup Committed)
              /\ ~\E j \in LogAt("createTag") : log[j].i = r.package
         /\ PatchFailedFor(r.package) =>
              /\ ~r.updated /\ ~r.skipped /\ Truthy(r.error)
              /\ r.gitResult.none
    /\ (pc = "done" /\ Confirmed) =>
         summary.commits = Cardinality(LogAtInfo("stageAndCommit", "success"))

\* C5 witness: one descriptor updated-but-uncommitted with its file still
\* modified, another one failed at the patch, and the run is over
C5_Witness ==
    /\ pc = "done"
    /\ \E k \in 1..Len(results) :
         /\ CommitFailedFor(results[k].package)
         /\ { f \in written : f.pkg = results[k].package } # {}
    /\ \E k \in 1..Len(results) : PatchFailedFor(results[k].package)

\* The descriptors that failed in the run: the updater reported a failure, or
\* processing threw
FailedDescriptors ==
    { log[k].i : k \in LogAtInfo("updateVersion", "failure")
                      \cup LogAtInfo("onError", "Failed to process") }

\* C6: in a run that reached EXECUTE, Summary.failed is the number of planned
\* descriptors that failed (patch failure or exception).
C6_FailedCountsFailures ==
    (pc = "done" /\ Confirmed) => summary.failed = Cardinality(FailedDescriptors)

\* C6 witness: of two planned descriptors one failed and the other did not
C6_Witness ==
    /\ pc = "done" /\ Confirmed
    /\ Len(changes) = 2
    /\ Cardinality(FailedDescriptors) = 1
    /\ \E k \in 1..Len(results) : results[k].skipped \/ results[k].updated

\* C7: createTag is requested for a descriptor only after its patch succeeded,
\* then its commit succeeded, and only if its tag decision is positive.
C7_TagAfterPatchAndCommit ==
    \A k \in LogAt("createTag") :
        LET i == log[k].i IN
        /\ \E j \in 1..(k - 1) :
             /\ log[j] = Entry("stageAndCommit", i, "success")
             /\ \E h \in 1..(j - 1) : log[h] = Entry("updateVersion", i, "success")
        /\ \E c \in 1..Len(changes) :
             /\ changes[c].config = i
             /\ changes[c].needsUpdate
             /\ changes[c].willCreateTag
        /\ ~PatchFailedFor(i) /\ ~CommitFailedFor(i)
        /\ ~\E j \in LogAt("onPackageSkipped") : log[j].i = i

\* C7 witness: a tag was requested for one descriptor, and another descriptor
\* with a negative tag decision was committed without one
C7_Witness ==
    /\ pc = "done"
    /\ LogAt("createTag") # {}
    /\ \E c \in 1..Len(changes) :
         /\ changes[c].needsUpdate /\ ~changes[c].willCreateTag
         /\ \E j \in LogAtInfo("stageAndCommit", "success") : log[j].i = changes[c].config

\* C8: Summary.tags is the number of tags createTag actually created.
C8_TagsCountsCreatedTags ==
    (pc = "done" /\ Confirmed) =>
        summary.tags = Cardinality(LogAtInfo("createTag", "success"))

\* The descriptors analysed so far, and those whose analysis reported an error
Analysed == IF pc = "analyze" THEN 1..(idx - 1) ELSE 1..Len(packages)
AnalysisFailed == { log[k].i : k \in LogAtInfo("onError", "analysis") }

C10_AlwaysEndsWithOnComplete ==
    pc = "done" => log[Len(log)].op = "onComplete"

\* C10 amended: every run terminates with a final Summary; onComplete is the
\* observer's last event exactly when the run reached EXECUTE, and after no
\* valid descriptor or a decline the empty summary is returned without it.
C10_EndsInSummary ==
    /\ <>(pc = "done")
    /\ [](pc = "done" =>
            /\ ~summary.none
            /\ (log[Len(log)].op = "onComplete") = Confirmed
            /\ ~Confirmed => (LogAt("onComplete") = {} /\ summary = createSummary(<<>>))
            /\ Cardinality(LogAt("onComplete")) <= 1)
    /\ [](pc # "done" => LogAt("onComplete") = {})

\* C10 witness: a run that reached EXECUTE has ended, with one descriptor failed
\* and one updated
C10_Witness ==
    /\ pc = "done"
    /\ Confirmed
    /\ Cardinality(FailedDescriptors) = 1
    /\ summary.updated = 1

\* C11: a dry run changes nothing: no updater writes a file (primary,
\* workspace root or member), npm install is not spawned, no git add, commit,
\* fetch, tags or addTag call is issued and the repository's index, commits and
\* tags stay as they were, while every successful update still reports its old
\* and new version.
C11_DryRunChangesNothing ==
    dryRun =>
        /\ written = {} /\ worktree = {} /\ index = {} /\ commits = <<>>
        /\ LogAt("spawn") = {}
        /\ LogAt("git") = {}
        /\ repoTags \in InitialTagSets
        /\ \A k \in LogAtInfo("updateVersion", "success") :
             \/ \E r \in 1..Len(results) :
                  /\ results[r].package = log[k].i
                  /\ results[r].updateResult.success /\ results[r].updateResult.versions
             \/ /\ pc \in { "commit", "tag" }
                /\ changes[idx].config = log[k].i
                /\ updateResult.success /\ updateResult.versions

\* C11 witness: a dry run is over in which a cargo package with workspace files
\* and an npm package were both updated, "committed" and "tagged"
C11_Witness ==
    /\ dryRun
    /\ pc = "done"
    /\ Len(results) = 2
    /\ \E r \in 1..2 : /\ packages[results[r].package].type = "cargo"
                        /\ results[r].updated
                        /\ results[r].updateResult.additionalFiles = { "root", "member" }
    /\ \E r \in 1..2 : /\ packages[results[r].package].type = "npm"
                        /\ results[r].updated /\ results[r].gitResult.success
    /\ Cardinality(LogAtInfo("createTag", "success")) = 2

\* The call in the state is a finished updateVersion call of the cargo updater
\* on crates/core, not a dry run, and the first call made on these files
CoreUpdated ==
    /\ call.op = "updateVersion"
    /\ call.type = "cargo" /\ call.dir = CoreDir /\ ~call.dryRun
    /\ call.n = 1

\* The scenario of C12 before the call: crates/core carries version = "1.0.0",
\* it is a listed member of the workspace at the top directory, whose
\* [workspace.dependencies] table has core = "1.0.0"
C12_Scenario ==
    /\ CoreUpdated
    /\ Exists(call.before, CargoFile(TopDir))
    /\ Members(call.before[CargoFile(TopDir)]) = << CoreDir, AppDir >>
    /\ TomlString(call.before[CargoFile(CoreDir)], "package", "version") = "1.0.0"
    /\ TomlString(call.before[CargoFile(TopDir)], "workspace.dependencies", "core") = "1.0.0"

\* C12: in that scenario the update to 2.0.0 leaves crates/core at
\* version = "2.0.0", the root's core entry at "2.0.0", and reports exactly the
\* root manifest as additionalFiles.
C12_EndToEnd ==
    C12_Scenario =>
        /\ call.result.success
        /\ TomlString(fs[CargoFile(CoreDir)], "package", "version") = "2.0.0"
        /\ TomlString(fs[CargoFile(TopDir)], "workspace.dependencies", "core") = "2.0.0"
        /\ call.result.additionalFiles = { CargoFile(TopDir) }

\* C13: with member A = crates/core at explicit version 1.0.0 and member
\* B = crates/app recording its dependency on core as "1.0.0", updating core to
\* 2.0.0 leaves core's file at 2.0.0, app's dependency entry on core at 2.0.0,
\* and reports app's file among additionalFiles.
C13_PropagationComplete ==
    ( /\ CoreUpdated
      /\ Exists(call.before, CargoFile(TopDir))
      /\ Exists(call.before, CargoFile(AppDir))
      /\ Members(call.before[CargoFile(TopDir)]) = << CoreDir, AppDir >>
      /\ TomlString(call.before[CargoFile(CoreDir)], "package", "version") = "1.0.0"
      /\ TomlString(call.before[CargoFile(AppDir)], "dependencies", "core") = "1.0.0" )
    =>
        /\ call.result.success
        /\ TomlString(fs[CargoFile(CoreDir)], "package", "version") = "2.0.0"
        /\ TomlString(fs[CargoFile(AppDir)], "dependencies", "core") = "2.0.0"
        /\ CargoFile(AppDir) \in call.result.additionalFiles

\* The files the call in the state has created or changed
Changed == { f \in DOMAIN fs : ~Exists(call.before, f) \/ fs[f] # call.before[f] }

\* The primary file of the call: updater.getPackageFilePath(config.path)
PrimaryFile == IF call.type = "npm" THEN NpmFile(call.dir) ELSE CargoFile(call.dir)

\* C14: a successful update never lists its primary file in additionalFiles
\* and lists every other file it wrote, so the primary file plus
\* additionalFiles, the set the processor stages, covers every written file.
C14_AdditionalFilesCoverWrites ==
    (call.op = "updateVersion" /\ call.result.success) =>
        /\ PrimaryFile \notin call.result.additionalFiles
        /\ Changed \subseteq ({ PrimaryFile } \cup call.result.additionalFiles)

\* C14 witness: one cargo update has rewritten the package's own manifest, the
\* workspace root and another member
C14_Witness ==
    /\ CoreUpdated
    /\ call.result.success
    /\ Changed = { CargoFile(TopDir), CargoFile(CoreDir), CargoFile(AppDir) }

\* The window of a section as TOML reads it: the lines after the first
\* [section] header up to the next header of any kind, or the end of the file
Window(content, section) ==
    LET hs == { k \in 1..Len(content) : content[k].t = "header" /\ content[k].key = section }
        next == { k \in (Min(hs) + 1)..Len(content) : content[k].t \in { "header", "array" } }
    IN  IF hs = {} THEN {}
        ELSE (Min(hs) + 1)..((IF next = {} THEN Len(content) + 1 ELSE Min(next)) - 1)

\* The version = "..." assignments inside the window of a section
VersionLines(content, section) ==
    { k \in Window(content, section) : content[k].t = "string" /\ content[k].key = "version" }

\* C15: updateVersionInSection changes nothing but the value of the first
\* version = "..." assignment inside the window of its section; every other
\* line, inside or outside the window, is as before, as is that line's spacing.
C15_PatchStaysInWindow ==
    call.op = "patch" =>
        LET before == call.before[CargoFile(TopDir)]
            after == call.result.content
            vs == VersionLines(before, call.section)
        IN  /\ Len(after) = Len(before)
            /\ \A k \in 1..Len(before) :
                 after[k] # before[k] =>
                    /\ vs # {}
                    /\ k = Min(vs)
                    /\ after[k] = [before[k] EXCEPT !.value = call.newVersion]

\* The version the package of the call carried before the call
VersionBefore ==
    IF call.type = "npm"
    THEN IF Exists(call.before, NpmFile(call.dir))
         THEN Read(call.before[NpmFile(call.dir)][1].value)
         ELSE Thrown("ENOENT: no such file or directory")
    ELSE readVersion(call.before, call.dir)

\* C16: updateVersion of the npm or cargo updater, not a dry run, on a package
\* already at the target version succeeds and leaves the package's file exactly
\* as it was.
C16_NoOpAtTarget ==
    ( /\ call.op = "updateVersion" /\ ~call.dryRun
      /\ VersionBefore = Read(call.newVersion) )
    =>
        /\ call.result.success
        /\ fs[PrimaryFile] = call.before[PrimaryFile]

\* C17: the patch result for a section whose version already equals the target
\* differs from the result for a section with no version assignment by more
\* than the content handed back.
C17_MissingIsNotAlreadyCorrect ==
    call.op = "patch" =>
        LET before == call.before[CargoFile(TopDir)]
            vs == VersionLines(before, call.section)
            missing == updateVersionInSection(<< Header(call.section) >>, call.section,
                                              call.newVersion)
        IN  (vs # {} /\ before[Min(vs)].value = call.newVersion)
                => call.result.updated # missing.updated

\* C18: an npm descriptor that does not set create_tag = true is never planned
\* with willCreateTag and never has a tag requested for it.
C18_NpmTagOffByDefault ==
    /\ \A k \in 1..Len(changes) :
         (packages[changes[k].config].type = "npm" /\ changes[k].willCreateTag)
             => packages[changes[k].config].create_tag = "true"
    /\ \A k \in LogAt("createTag") :
         packages[log[k].i].type = "npm" => packages[log[k].i].create_tag = "true"

\* The tag of a Go module by its path relative to the repository root
GoTagName(entry) ==
    IF entry.path \in { ".", "" }
    THEN "v" \o entry.version
    ELSE entry.path \o "/v" \o entry.version

\* C19: for a Go descriptor the tag name planned at analysis and the tag name
\* requested at execution are both v{version} for the module at the repository
\* root and {relativePath}/v{version} for a nested module.
C19_GoTagByRelativePath ==
    \A e \in { m \in ManifestPackages : m.type = "go" } :
        /\ \A k \in 1..Len(changes) :
             (packages[changes[k].config] = AbsolutePackage(e) /\ changes[k].willCreateTag)
                 => changes[k].tagName = GoTagName(e)
        /\ \A k \in LogAt("getTagName") :
             packages[log[k].i] = AbsolutePackage(e) => log[k].info = GoTagName(e)

\* C20: the apply command exits with 3 after a declined confirmation, with 1
\* when a descriptor failed, with 2 when no descriptor passed analysis, and
\* with 0 when the run executed without a failed descriptor.
C20_ExitCodes ==
    pc = "done" =>
        /\ Declined => ExitCode(summary) = 3
        /\ (Confirmed /\ FailedDescriptors # {}) => ExitCode(summary) = 1
        /\ (Confirmed /\ FailedDescriptors = {}) => ExitCode(summary) = 0
        /\ (~Declined /\ ~Confirmed) => ExitCode(summary) = 2

\* The classes of the summary a result is counted in
Classes(r) ==
    (IF r.updated THEN { "updated" } ELSE {})
    \cup (IF r.skipped THEN { "skipped" } ELSE {})
    \cup (IF Truthy(r.error) THEN { "failed" } ELSE {})

\* The counts of a summary add up and are ordered
Accounted(s) ==
    /\ s.updated + s.skipped + s.failed = s.total
    /\ s.commits <= s.updated
    /\ s.tags <= s.commits

\* C30: in the summary of every finished run, updated + skipped + failed =
\* total = the number of planned descriptors, commits <= updated and
\* tags <= commits, each result being counted in exactly one class.
C30_SummaryAccounting ==
    pc = "done" =>
        /\ \A r \in 1..Len(results) : Cardinality(Classes(results[r])) = 1
        /\ Accounted(summary)
        /\ summary.total = Len(changes)

\* C30 amended: the counts of every finished run add up and are ordered with
\* each result in exactly one class; total is the number of planned descriptors
\* when the plan was confirmed, and 0 when there was no plan or it was declined.
C30_ExecutedSummaryAccounting ==
    pc = "done" =>
        /\ \A r \in 1..Len(results) : Cardinality(Classes(results[r])) = 1
        /\ Accounted(summary)
        /\ summary.total = (IF Confirmed THEN Len(changes) ELSE 0)

\* C30 witness: a confirmed run has ended with one descriptor skipped and one
\* failed, or with one updated and tagged and one failed
C30_Witness ==
    /\ pc = "done" /\ Confirmed
    /\ summary.total = 2 /\ summary.failed = 1
    /\ summary.skipped = 1 \/ (summary.updated = 1 /\ summary.tags = 1)

\* The call in the state is a finished updateVersion call of the cargo updater
\* on one of the two crates, made with the workspace root manifest on disk
CrateUpdated ==
    /\ call.op = "updateVersion" /\ call.type = "cargo"
    /\ call.dir \in { CoreDir, AppDir }
    /\ Exists(call.before, CargoFile(call.dir))
    /\ Exists(call.before, CargoFile(TopDir))

\* The files without one of them
Without(files, file) == Files(DOMAIN files \ { file }, files)

\* C23: a crate whose enclosing root has a non-empty member list that does not
\* match the crate's path is standalone for reading and for writing: a version
\* read for it is the one read with the root manifest absent, and updateVersion
\* leaves the root manifest as it was.
C23_StandaloneEverywhere ==
    ( /\ CrateUpdated
      /\ Members(call.before[CargoFile(TopDir)]) # <<>>
      /\ ~matchesWorkspaceMember(Members(call.before[CargoFile(TopDir)]),
                                 getRelativeWorkspacePath(TopDir, call.dir)) )
    =>
        /\ readVersion(call.before, call.dir).ok =>
               readVersion(call.before, call.dir)
                 = readVersion(Without(call.before, CargoFile(TopDir)), call.dir)
        /\ fs[CargoFile(TopDir)] = call.before[CargoFile(TopDir)]

\* C24: updating a workspace-enclosed crate that declares its own literal
\* version changes no file but the crate's own manifest: the root manifest and
\* the sibling's manifest are as before.
C24_MemberExplicitFrame ==
    ( /\ CrateUpdated
      /\ TomlString(call.before[CargoFile(call.dir)], "package", "version") # Undefined )
    =>
        \A f \in DOMAIN fs \ { CargoFile(call.dir) } : fs[f] = call.before[f]

\* The crates on disk that the member patterns of the root manifest resolve to
ResolvedMembers(files) ==
    { d \in { CoreDir, AppDir } :
        /\ Exists(files, CargoFile(d))
        /\ matchesWorkspaceMember(Members(files[CargoFile(TopDir)]),
                                  getRelativeWorkspacePath(TopDir, d)) }

\* The call has succeeded, not as a dry run, and has changed the shared version
\* of the root manifest
SharedVersionChanged ==
    /\ CrateUpdated /\ ~call.dryRun /\ call.result.success
    /\ hasWorkspacePackageVersion(call.before[CargoFile(TopDir)])
    /\ fs[CargoFile(TopDir)] # call.before[CargoFile(TopDir)]
    /\ TomlString(fs[CargoFile(TopDir)], "workspace.package", "version") = call.newVersion

\* C25: when the shared root version changes, every member the patterns resolve
\* to whose manifest declared an explicit version other than the target is at
\* the target afterwards and is reported (as the primary file or among
\* additionalFiles); a pattern that resolves to no manifest does not fail the call.
C25_MembersPatched ==
    SharedVersionChanged =>
        \A d \in ResolvedMembers(call.before) :
            TomlString(call.before[CargoFile(d)], "package", "version")
                    \notin { Undefined, call.newVersion }
                => /\ TomlString(fs[CargoFile(d)], "package", "version") = call.newVersion
                   /\ CargoFile(d) \in call.result.additionalFiles \cup { CargoFile(call.dir) }

\* The names of the crates whose explicit version the call has patched
PatchedMemberNames ==
    { TomlString(call.before[CargoFile(d)], "package", "name") :
        d \in { m \in { CoreDir, AppDir } :
                  /\ Exists(call.before, CargoFile(m))
                  /\ TomlString(call.before[CargoFile(m)], "package", "version") # Undefined
                  /\ fs[CargoFile(m)] # call.before[CargoFile(m)] } }

\* The lines of the root's [workspace.dependencies] table
DependencyEntries(content) ==
    { k \in 1..Len(content) :
        /\ content[k].t \in { "string", "inline" }
        /\ TableOf(content, k) = "workspace.dependencies" }

\* C26: in the root's dependency table an entry is rewritten iff its key names
\* a crate whose explicit version the call has patched, and a rewritten entry
\* differs from the old one in its version only.
C26_DependencyEntriesRewritten ==
    SharedVersionChanged =>
        LET before == call.before[CargoFile(TopDir)]
            after == fs[CargoFile(TopDir)]
        IN  /\ Len(after) = Len(before)
            /\ \A k \in DependencyEntries(before) :
                 /\ after[k] # before[k] => before[k].key \in PatchedMemberNames
                 /\ before[k].key \in PatchedMemberNames =>
                        after[k] = [before[k] EXCEPT !.value = call.newVersion]

\* C28: an updateVersion call that returns a failure has left every file as it
\* was before the call, and has created none.
C28_FailureChangesNothing ==
    (call.op = "updateVersion" /\ ~call.result.success) => fs = call.before

\* A pattern matches a path as a glob: ** is any run of characters, * any run
\* without "/", every other character is itself
RECURSIVE GlobMatches(_, _)
GlobMatches(pattern, path) ==
    IF pattern = <<>> THEN path = <<>>
    ELSE IF Len(pattern) >= 2 /\ pattern[1] = "*" /\ pattern[2] = "*"
    THEN \E n \in 0..Len(path) :
            GlobMatches(SubSeq(pattern, 3, Len(pattern)), SubSeq(path, n + 1, Len(path)))
    ELSE IF pattern[1] = "*"
    THEN \E n \in 0..Len(path) :
            /\ \A j \in 1..n : path[j] # "/"
            /\ GlobMatches(Tail(pattern), SubSeq(path, n + 1, Len(path)))
    ELSE /\ path # <<>> /\ path[1] = pattern[1]
         /\ GlobMatches(Tail(pattern), Tail(path))

\* C22: a relative path matches a member pattern iff it equals the pattern, or
\* the pattern holds a * and matches the path as a glob in which every
\* character other than * stands for itself.
C22_GlobMatching ==
    call.op = "matchesWorkspaceMember" =>
        call.result =
            (IF \/ call.member = call.path
                \/ /\ \E k \in 1..Len(call.member) : call.member[k] = "*"
                   /\ GlobMatches(call.member, call.path)
             THEN "true" ELSE "false")

\* The versions of the tags that belong to a module: v{version} for the root,
\* {path}/v{version} for a nested module
OwnVersions(module) == { v \in GoVersions : GoTag(module, v) \in repoTags }

\* C27: the go updater's readVersion returns the highest version among the
\* tags of that module only, and 0.0.0 when the module has no tag or git fails.
C27_GoReadsOwnTags ==
    (call.op = "readVersion" /\ call.type = "go" /\ call.result.ok) =>
        LET own == OwnVersions(call.dir)
        IN  IF call.git = "rejects" \/ own = {}
            THEN call.result.value = "0.0.0"
            ELSE /\ call.result.value \in own
                 /\ \A v \in own : ~GoNewer(v, call.result.value)

\* The version lines of the blocks of the packages the bump has planned
BumpedLines(content) ==
    { k \in 1..Len(content) :
        /\ content[k].t = "string" /\ content[k].key = "version"
        /\ \E n \in 1..Len(call.plan) : call.plan[n].block = BlockOf(content, k) }

\* C21: after a confirmed bump the version line of every bumped package's
\* block holds the bumped version, whatever the order of the keys in the block,
\* and every other line is as before; after a declined bump the file is as before.
C21_BumpEditsOneLinePerPackage ==
    call.op = "bump" =>
        LET before == call.before[VersionsToml]
            after == fs[VersionsToml]
        IN  IF call.result = "Updated versions.toml"
            THEN /\ Len(after) = Len(before)
                 /\ \A k \in 1..Len(before) :
                      IF k \in BumpedLines(before)
                      THEN /\ after[k].t = "string" /\ after[k].key = "version"
                           /\ after[k].value = bumpVersion(before[k].value, call.type)
                      ELSE after[k] = before[k]
            ELSE after = before

\* C29: every planned descriptor with needsUpdate is executed on the version
\* recorded for it at analysis: the oldVersion its update reports is the
\* currentVersion of its plan entry.
C29_PlanStaysValid ==
    \A r \in 1..Len(results) :
        (pc \in { "execute", "done" } /\ changes[r].needsUpdate
            /\ results[r].updateResult.success)
        => results[r].updateResult.oldVersion = changes[r].currentVersion

====
